---- MODULE Spec2Model ----
(***************************************************************************)
(* The reward ledger of src/src/accumulation.rs: struct Accumulation with  *)
(* its two tables (idempotency, accumulated), the three command handlers   *)
(* (add_account, accumulate, claim), which take &self and return an event  *)
(* or an error, and apply, the only method that takes &mut self.           *)
(*                                                                         *)
(* A caller holds the events the handlers returned (pending) and applies   *)
(* them one at a time.  Under Spec several events may be pending, so an    *)
(* event may be applied to a state other than the one it was validated     *)
(* against; under SpecSeq a command is only validated when nothing is      *)
(* pending, so each event is applied to the state that validated it.       *)
(***************************************************************************)
EXTENDS Bags, FiniteSets, Integers, Sequences, TLC

\* ------------------------------------------------------------------ bounds

\* The largest representable Money (u64::MAX nano in the code), scaled down.
MaxMoney == 1

\* The number of events a caller may hold validated and not yet applied.
MaxPending == 2

\* The number of events the handlers return in one run in which events wait.
MaxEvents == 3

\* The number of events the handlers return in one run in which each event is
\* applied before the next command is validated.
MaxSeqEvents == 5

\* ------------------------------------------------------------ value domains

AccountIds == {"x", "y"}

Ids == {"h1", "h2"}

WorkCounters == {0, 1}

Money == 0 .. MaxMoney

\* HashMap<AccountId, Money>: a map whose key set is any set of accounts.
Distributions == UNION {[S -> Money] : S \in SUBSET AccountIds}

\* Option<T>
None == [some |-> FALSE]

Some(v) == [some |-> TRUE, value |-> v]

\* Result<T>
Ok(e) == [tag |-> "Ok", event |-> e]

Err(x) == [tag |-> "Err", err |-> x]

\* ------------------------------------------------------------------- state

VARIABLES
    idempotency,  \* HashSet<Id>: the submission ids already rewarded
    accumulated,  \* HashMap<AccountId, CurrentAccumulation>
    panicked,     \* TRUE once the unwrap in apply has hit a None
    pending,      \* bag of the events returned by handlers and not yet applied
    issued,       \* number of events the handlers have returned
    credited,     \* per account, the sum of the deltas written by apply
    claimed       \* per account, the sum of the balances of the applied claims

vars == <<idempotency, accumulated, panicked, pending, issued, credited,
          claimed>>

\* &self
Self == [idempotency |-> idempotency, accumulated |-> accumulated]

\* ----------------------------------------------------- CurrentAccumulation

\* Default::default() of CurrentAccumulation: zero balance, zero work.
DefaultAccumulation == [amount |-> 0, worked |-> 0]

\* Money::checked_add: None when the sum is not representable.
checked_add(m, n) == IF m + n > MaxMoney THEN None ELSE Some(m + n)

\* CurrentAccumulation::add: the record with the amount added, None on overflow.
add(existing, amount) ==
    LET sum == checked_add(existing.amount, amount)
    IN  IF sum.some
        THEN Some([amount |-> sum.value, worked |-> existing.worked])
        ELSE None

\* ----------------------------------------------------------------- queries

get(self, account) ==
    IF account \in DOMAIN self.accumulated
    THEN Some(self.accumulated[account])
    ELSE None

get_all(self) == self.accumulated

\* HashMap::insert and HashMap::remove on the accumulated table.
MapInsert(m, k, v) == [x \in DOMAIN m \cup {k} |-> IF x = k THEN v ELSE m[x]]

MapRemove(m, k) == [x \in DOMAIN m \ {k} |-> m[x]]

\* ---------------------------------------------------------------- commands

\* add_account without the contains_key test.
add_accountUnchecked(self, id, worked) ==
    Ok([type |-> "AccountAdded", id |-> id, worked |-> worked])

add_account(self, id, worked) ==
    IF id \in DOMAIN self.accumulated
    THEN Err("BalanceExists")
    ELSE Ok([type |-> "AccountAdded", id |-> id, worked |-> worked])

\* accumulate without the dry run of the additions.
accumulateUnchecked(self, id, distribution) ==
    IF id \in self.idempotency
    THEN Err("DataExists")
    ELSE Ok([type |-> "AmountsAccumulated", id |-> id,
             distribution |-> distribution])

accumulate(self, id, distribution) ==
    IF id \in self.idempotency
    THEN Err("DataExists")
    ELSE IF \E a \in DOMAIN distribution :
                /\ a \in DOMAIN self.accumulated
                /\ ~add(self.accumulated[a], distribution[a]).some
         THEN Err("ExcessiveValue")
         ELSE Ok([type |-> "AmountsAccumulated", id |-> id,
                  distribution |-> distribution])

\* claim with a snapshot that carries the balance and drops the work counter.
claimDropsWork(self, account) ==
    LET result == get(self, account)
    IN  IF ~result.some
        THEN Err("NoSuchKey")
        ELSE Ok([type |-> "AccumulatedClaimed", account |-> account,
                 accumulated |-> [amount |-> result.value.amount,
                                  worked |-> 0]])

\* claim that answers for an account without a record with the default one.
claimOrDefault(self, account) ==
    LET result == get(self, account)
    IN  Ok([type |-> "AccumulatedClaimed", account |-> account,
            accumulated |-> IF result.some
                            THEN result.value
                            ELSE DefaultAccumulation])

\* claim with a snapshot whose balance is zero.
claimZeroed(self, account) ==
    LET result == get(self, account)
    IN  IF ~result.some
        THEN Err("NoSuchKey")
        ELSE Ok([type |-> "AccumulatedClaimed", account |-> account,
                 accumulated |-> [amount |-> 0,
                                  worked |-> result.value.worked]])

claim(self, account) ==
    LET result == get(self, account)
    IN  IF ~result.some
        THEN Err("NoSuchKey")
        ELSE Ok([type |-> "AccumulatedClaimed", account |-> account,
                 accumulated |-> result.value])

\* ---------------------------------------------------------------- mutation

\* The orders in which a HashMap with the keys of d can be iterated.
Orders(d) ==
    {o \in [1 .. Cardinality(DOMAIN d) -> DOMAIN d] :
        \A i, j \in DOMAIN o : o[i] = o[j] => i = j}

\* What apply works on: the two tables, whether the unwrap has panicked, and
\* the accounts whose record the AmountsAccumulated arm has written.
Borrow(self) ==
    [idempotency |-> self.idempotency,
     accumulated |-> self.accumulated,
     panicked |-> FALSE,
     written |-> {}]

\* The arm with the work counter written into both fields.
AccountAddedArmSwapped(st, e) ==
    [st EXCEPT !.accumulated =
        MapInsert(st.accumulated, e.id,
                  [amount |-> e.worked, worked |-> e.worked])]

\* The arm inserting the default record: the event's work counter is dropped.
AccountAddedArmDefault(st, e) ==
    [st EXCEPT !.accumulated =
        MapInsert(st.accumulated, e.id, DefaultAccumulation)]

\* The AccountAdded arm: insert a zero record, whatever was there.
AccountAddedArm(st, e) ==
    [st EXCEPT !.accumulated =
        MapInsert(st.accumulated, e.id, [amount |-> 0, worked |-> e.worked])]

\* The pass with the new amount written in place of the sum.
AccumulateEntryOverwrites(st, e, id) ==
    LET sum == add(DefaultAccumulation, e.distribution[id])
    IN  IF ~sum.some
        THEN [st EXCEPT !.panicked = TRUE]
        ELSE [idempotency |-> st.idempotency \cup {e.id},
              accumulated |-> MapInsert(st.accumulated, id, sum.value),
              panicked |-> FALSE,
              written |-> st.written \cup {id}]

\* The pass with an unwrap of the lookup: an account without a record panics.
AccumulateEntryNoDefault(st, e, id) ==
    IF id \notin DOMAIN st.accumulated
    THEN [st EXCEPT !.panicked = TRUE]
    ELSE LET sum == add(st.accumulated[id], e.distribution[id])
         IN  IF ~sum.some
             THEN [st EXCEPT !.panicked = TRUE]
             ELSE [idempotency |-> st.idempotency \cup {e.id},
                   accumulated |-> MapInsert(st.accumulated, id, sum.value),
                   panicked |-> FALSE,
                   written |-> st.written \cup {id}]

\* The pass with the id table assigned instead of inserted into.
AccumulateEntryReplacesIds(st, e, id) ==
    LET existing == IF id \in DOMAIN st.accumulated
                    THEN st.accumulated[id]
                    ELSE DefaultAccumulation
        sum == add(existing, e.distribution[id])
    IN  IF ~sum.some
        THEN [st EXCEPT !.panicked = TRUE]
        ELSE [idempotency |-> {e.id},
              accumulated |-> MapInsert(st.accumulated, id, sum.value),
              panicked |-> FALSE,
              written |-> st.written \cup {id}]

\* The pass that credits existing records only: no record is created.
AccumulateEntrySkipsAbsent(st, e, id) ==
    IF id \notin DOMAIN st.accumulated
    THEN [st EXCEPT !.idempotency = @ \cup {e.id}]
    ELSE LET sum == add(st.accumulated[id], e.distribution[id])
         IN  IF ~sum.some
             THEN [st EXCEPT !.panicked = TRUE]
             ELSE [idempotency |-> st.idempotency \cup {e.id},
                   accumulated |-> MapInsert(st.accumulated, id, sum.value),
                   panicked |-> FALSE,
                   written |-> st.written \cup {id}]

\* One pass of the loop of the AmountsAccumulated arm, for the entry of id.
\* The unwrap comes before the two inserts: a None leaves both tables alone.
AccumulateEntry(st, e, id) ==
    LET amount == e.distribution[id]
        existing == IF id \in DOMAIN st.accumulated
                    THEN st.accumulated[id]
                    ELSE DefaultAccumulation
        sum == add(existing, amount)
    IN  IF ~sum.some
        THEN [st EXCEPT !.panicked = TRUE]
        ELSE [idempotency |-> st.idempotency \cup {e.id},
              accumulated |-> MapInsert(st.accumulated, id, sum.value),
              panicked |-> FALSE,
              written |-> st.written \cup {id}]

\* The AmountsAccumulated arm: the loop over the entries in the order given.
\* A panic leaves the loop where it stands.
RECURSIVE AmountsAccumulatedArm(_, _, _)
AmountsAccumulatedArm(st, e, order) ==
    IF order = <<>> \/ st.panicked
    THEN st
    ELSE AmountsAccumulatedArm(AccumulateEntry(st, e, Head(order)), e, Tail(order))

\* The arm as a reset to zero instead of a removal.
AccumulatedClaimedResets(st, e) ==
    [st EXCEPT !.accumulated =
        MapInsert(st.accumulated, e.account, DefaultAccumulation)]

\* The AccumulatedClaimed arm: remove the record; the snapshot is not read.
AccumulatedClaimedArm(st, e) ==
    [st EXCEPT !.accumulated = MapRemove(st.accumulated, e.account)]

\* Accumulation::apply.  order is the iteration order of the distribution and
\* is read by the AmountsAccumulated arm only.
apply(self, event, order) ==
    CASE event.type = "AccountAdded" ->
            AccountAddedArm(Borrow(self), event)
      [] event.type = "AmountsAccumulated" ->
            AmountsAccumulatedArm(Borrow(self), event, order)
      [] event.type = "AccumulatedClaimed" ->
            AccumulatedClaimedArm(Borrow(self), event)

\* ------------------------------------------------------------------ system

\* Accumulation::new(Default::default(), Default::default()), nothing pending.
Init ==
    /\ idempotency = {}
    /\ accumulated = [a \in {} |-> DefaultAccumulation]
    /\ panicked = FALSE
    /\ pending = EmptyBag
    /\ issued = 0
    /\ credited = [a \in AccountIds |-> 0]
    /\ claimed = [a \in AccountIds |-> 0]

\* The caller has room for one more event: it holds fewer than room, and the
\* run has not used up its budget of events.
Room(room, budget) == issued < budget /\ BagCardinality(pending) < room

\* The caller receives Ok(event) from a handler and keeps the event for apply.
\* The handler took &self: neither table changes.  (A handler that returns
\* Err leaves the caller with nothing and changes no variable: a stuttering
\* step, which [Next]_vars allows everywhere.)
Return(result) ==
    /\ result.tag = "Ok"
    /\ pending' = pending (+) SetToBag({result.event})
    /\ issued' = issued + 1
    /\ UNCHANGED <<idempotency, accumulated, panicked, credited, claimed>>

AddAccountCmd(room, budget) ==
    /\ ~panicked
    /\ Room(room, budget)
    /\ \E id \in AccountIds, worked \in WorkCounters :
          Return(add_account(Self, id, worked))

\* accumulate recording the id itself, at validation.
AccumulateCmdMarks(room, budget) ==
    /\ ~panicked
    /\ Room(room, budget)
    /\ \E id \in Ids, distribution \in Distributions :
          LET result == accumulate(Self, id, distribution)
          IN  /\ result.tag = "Ok"
              /\ pending' = pending (+) SetToBag({result.event})
              /\ issued' = issued + 1
              /\ idempotency' = idempotency \cup {id}
              /\ UNCHANGED <<accumulated, panicked, credited, claimed>>

AccumulateCmd(room, budget) ==
    /\ ~panicked
    /\ Room(room, budget)
    /\ \E id \in Ids, distribution \in Distributions :
          Return(accumulate(Self, id, distribution))

ClaimCmd(room, budget) ==
    /\ ~panicked
    /\ Room(room, budget)
    /\ \E account \in AccountIds :
          Return(claim(Self, account))

\* The caller applies one of the events it holds.
Commit(event, order) ==
    LET st == apply(Self, event, order)
    IN  /\ idempotency' = st.idempotency
        /\ accumulated' = st.accumulated
        /\ panicked' = st.panicked
        /\ pending' = pending (-) SetToBag({event})
        /\ credited' = [a \in AccountIds |->
                          IF a \in st.written
                          THEN credited[a] + event.distribution[a]
                          ELSE credited[a]]
        /\ claimed' = IF event.type = "AccumulatedClaimed"
                      THEN [claimed EXCEPT ![event.account] =
                                @ + event.accumulated.amount]
                      ELSE claimed
        /\ UNCHANGED issued

ApplyAccountAdded ==
    /\ ~panicked
    /\ \E event \in BagToSet(pending) :
          /\ event.type = "AccountAdded"
          /\ Commit(event, <<>>)

ApplyAmountsAccumulated ==
    /\ ~panicked
    /\ \E event \in BagToSet(pending) :
          /\ event.type = "AmountsAccumulated"
          /\ \E order \in Orders(event.distribution) : Commit(event, order)

ApplyAccumulatedClaimed ==
    /\ ~panicked
    /\ \E event \in BagToSet(pending) :
          /\ event.type = "AccumulatedClaimed"
          /\ Commit(event, <<>>)

\* Commands validated while other events are pending.
Next ==
    \/ AddAccountCmd(MaxPending, MaxEvents)
    \/ AccumulateCmd(MaxPending, MaxEvents)
    \/ ClaimCmd(MaxPending, MaxEvents)
    \/ ApplyAccountAdded
    \/ ApplyAmountsAccumulated
    \/ ApplyAccumulatedClaimed

Spec == Init /\ [][Next]_vars

\* Each command validated against the current state and applied before the
\* next command is validated.
NextSeq ==
    \/ AddAccountCmd(1, MaxSeqEvents)
    \/ AccumulateCmd(1, MaxSeqEvents)
    \/ ClaimCmd(1, MaxSeqEvents)
    \/ ApplyAccountAdded
    \/ ApplyAmountsAccumulated
    \/ ApplyAccumulatedClaimed

SpecSeq == Init /\ [][NextSeq]_vars

TypeOK ==
    /\ idempotency \subseteq Ids
    /\ DOMAIN accumulated \subseteq AccountIds
    /\ \A a \in DOMAIN accumulated :
          /\ accumulated[a].amount \in Money
          /\ accumulated[a].worked \in WorkCounters \cup {DefaultAccumulation.worked}
    /\ panicked \in BOOLEAN
    /\ issued \in Nat

\* ------------------------------------------------------------- properties

\* This step is apply(e) for an event e the caller held.
Applied(e) == BagIn(e, pending) /\ pending' = pending (-) SetToBag({e})

\* get(a).amount, zero for an account without a record.
BalanceOf(a) == IF get(Self, a).some THEN get(Self, a).value.amount ELSE 0

\* C1 (as claimed): once an AmountsAccumulated event for submission s has been
\* applied (apply returned), accumulate(s, d') returns Err(DataExists) for
\* every distribution d', whatever the applied distribution contained, the
\* empty one included.
C1_AppliedSubmissionIsRejected ==
    [][\A e \in BagToSet(pending) :
          (e.type = "AmountsAccumulated" /\ Applied(e) /\ ~panicked')
              => \A d \in Distributions :
                    accumulate(Self', e.id, d) = Err("DataExists")]_vars

\* C2 (as claimed): for every account, the balances carried by the applied
\* AccumulatedClaimed events never sum to more than the deltas the applied
\* AmountsAccumulated events credited to it, also when events are applied
\* after other events.
C2_ClaimedAtMostCredited ==
    \A a \in AccountIds : claimed[a] <= credited[a]

\* C3: when every command is validated against the current state and applied
\* before the next, an account no claim has paid out holds exactly the sum of
\* the deltas applied for it: get(a) has that balance, and an account without
\* a record has been credited nothing.
C3_BalanceIsSumOfDeltas ==
    \A a \in AccountIds :
        claimed[a] = 0 =>
            /\ get(Self, a).some => get(Self, a).value.amount = credited[a]
            /\ ~get(Self, a).some => credited[a] = 0

\* Two submissions applied, and an account holding the sum of its deltas.
C3_Witness ==
    /\ idempotency = Ids
    /\ \E a \in DOMAIN accumulated :
          /\ claimed[a] = 0
          /\ credited[a] = MaxMoney
          /\ accumulated[a].amount = MaxMoney

\* An existing record of d that cannot take its delta.
Overflows(d) ==
    \E a \in DOMAIN d \cap DOMAIN accumulated :
        accumulated[a].amount + d[a] > MaxMoney

\* C4: in every reachable state, for a submission id not yet processed and a
\* distribution naming an existing account whose balance plus delta exceeds
\* the largest Money, accumulate returns Err(ExcessiveValue): a value computed
\* from &self, with the two tables as they were.
C4_OverflowIsRejected ==
    \A s \in Ids \ idempotency, d \in Distributions :
        Overflows(d) => accumulate(Self, s, d) = Err("ExcessiveValue")

\* An account at the largest balance, an id still free, events applied.
C4_Witness ==
    /\ Ids \ idempotency # {}
    /\ \E a \in DOMAIN accumulated : accumulated[a].amount = MaxMoney
    /\ \E d \in Distributions :
          /\ DOMAIN d = AccountIds
          /\ Overflows(d)
          /\ \A s \in Ids \ idempotency :
                accumulate(Self, s, d) = Err("ExcessiveValue")

\* C5: the processed set and the accounts table change only in a step that
\* applies an event; no step in which a handler returns changes either.
C5_OnlyApplyMutates ==
    [][(idempotency' # idempotency \/ accumulated' # accumulated)
          => \E e \in BagToSet(pending) : Applied(e)]_vars

\* Handlers have returned as many events as the caller holds, one of them an
\* AmountsAccumulated, claim has returned an error, and the tables are still
\* as constructed.
C5_Witness ==
    /\ BagCardinality(pending) = MaxPending
    /\ \E e \in BagToSet(pending) : e.type = "AmountsAccumulated"
    /\ idempotency = {}
    /\ accumulated = <<>>
    /\ claim(Self, "x") = Err("NoSuchKey")

\* C6: in every reachable state, an event accumulate returns for that state
\* is applied to that state without the unwrap meeting a None, in every
\* iteration order, for entries of existing and of absent accounts alike.
C6_ValidatedEventApplies ==
    \A s \in Ids, d \in Distributions :
        LET result == accumulate(Self, s, d)
        IN  result.tag = "Ok" =>
                \A order \in Orders(d) :
                    ~apply(Self, result.event, order).panicked

\* The caller holds an event validated against this very state, naming an
\* absent account and an existing one that it fills to the largest balance.
C6_Witness ==
    \E e \in BagToSet(pending) :
        /\ e.type = "AmountsAccumulated"
        /\ accumulate(Self, e.id, e.distribution) = Ok(e)
        /\ \E a \in DOMAIN e.distribution \ DOMAIN accumulated :
              e.distribution[a] = MaxMoney
        /\ \E b \in DOMAIN e.distribution \cap DOMAIN accumulated :
              /\ accumulated[b].amount > 0
              /\ accumulated[b].amount + e.distribution[b] = MaxMoney

\* This step applies an AccumulatedClaimed event for a.
AppliedClaimOf(a) ==
    \E e \in BagToSet(pending) :
        e.type = "AccumulatedClaimed" /\ e.account = a /\ Applied(e)

\* This step applies an AccountAdded event for a.
AppliedAddOf(a) ==
    \E e \in BagToSet(pending) :
        e.type = "AccountAdded" /\ e.id = a /\ Applied(e)

\* This step applies an AmountsAccumulated event whose distribution names a.
AppliedAccumulationOf(a) ==
    \E e \in BagToSet(pending) :
        e.type = "AmountsAccumulated" /\ a \in DOMAIN e.distribution /\ Applied(e)

\* C7: the step that applies a claim of a leaves get(a) = None and claim(a)
\* = Err(NoSuchKey), and a then stays without a record, so claim(a) keeps
\* failing, until an AccountAdded for a or an AmountsAccumulated naming a is
\* applied.
C7_ClaimThenAbsent ==
    [][\A a \in AccountIds :
          /\ AppliedClaimOf(a) =>
                /\ get(Self', a) = None
                /\ claim(Self', a) = Err("NoSuchKey")
          /\ (~get(Self, a).some /\ get(Self', a).some) =>
                (AppliedAddOf(a) \/ AppliedAccumulationOf(a))]_vars

\* A credited account has been claimed: its record is gone and claim fails.
C7_Witness ==
    \E a \in AccountIds :
        /\ credited[a] > 0
        /\ claimed[a] = credited[a]
        /\ get(Self, a) = None
        /\ claim(Self, a) = Err("NoSuchKey")

\* What add_account answers in the state self: the AccountAdded event for an
\* account without a record, Err(BalanceExists) for one with a record.
RegisterAnswers(self) ==
    \A a \in AccountIds, w \in WorkCounters :
        add_account(self, a, w) =
            IF get(self, a).some
            THEN Err("BalanceExists")
            ELSE Ok([type |-> "AccountAdded", id |-> a, worked |-> w])

\* C8: add_account returns the AccountAdded event for an account without a
\* record; the step that applies an AccountAdded for a leaves a with a record,
\* so add_account(a, w) = Err(BalanceExists) for every w, and a loses its
\* record, so that add_account can succeed again, only in a step that applies
\* a claim of a.
C8_RegisterUniqueness ==
    [][/\ RegisterAnswers(Self)
       /\ RegisterAnswers(Self')
       /\ \A a \in AccountIds :
             /\ AppliedAddOf(a) => get(Self', a).some
             /\ (get(Self, a).some /\ ~get(Self', a).some) => AppliedClaimOf(a)]_vars

\* A registered account, credited since, for which add_account fails.
C8_Witness ==
    \E a \in DOMAIN accumulated :
        /\ accumulated[a].worked = 1
        /\ accumulated[a].amount > 0
        /\ \A w \in WorkCounters : add_account(Self, a, w) = Err("BalanceExists")

\* C9: no step, of whatever event kind, takes an id out of the processed set.
C9_ProcessedOnlyGrows ==
    [][idempotency \subseteq idempotency']_vars

\* Both ids processed, and a claim applied after an accumulation.
C9_Witness ==
    /\ idempotency = Ids
    /\ \E a \in AccountIds : claimed[a] > 0

\* The event accumulate returns for s and d, applied to this state in every
\* order, gives account a a record with balance d[a].
AcceptedAndCreated(s, d, a) ==
    LET result == accumulate(Self, s, d)
    IN  /\ result = Ok([type |-> "AmountsAccumulated", id |-> s,
                        distribution |-> d])
        /\ \A order \in Orders(d) :
              LET st == apply(Self, result.event, order)
              IN  /\ ~st.panicked
                  /\ get(st, a).some
                  /\ get(st, a).value.amount = d[a]

\* C10 (as claimed): for every unprocessed id s and every distribution d that
\* names an account a without a record, accumulate returns the event carrying
\* s and d, and applying it gives a a record with balance d[a].
C10_AbsentAccountAccepted ==
    \A s \in Ids \ idempotency, d \in Distributions :
        \A a \in DOMAIN d \ DOMAIN accumulated :
            AcceptedAndCreated(s, d, a)

\* C10 (amended): the same, for the distributions in which no existing
\* account's balance plus delta exceeds the largest Money.
C10_AbsentAccountAcceptedUnlessOverflow ==
    \A s \in Ids \ idempotency, d \in Distributions :
        ~Overflows(d) =>
            \A a \in DOMAIN d \ DOMAIN accumulated :
                AcceptedAndCreated(s, d, a)

\* An id is free, one account has a record with a balance and the other has
\* none, and a distribution crediting both is accepted.
C10_Witness ==
    /\ Ids \ idempotency # {}
    /\ \E b \in DOMAIN accumulated, a \in AccountIds \ DOMAIN accumulated :
          /\ accumulated[b].amount > 0
          /\ \E d \in Distributions :
                /\ DOMAIN d = {a, b}
                /\ d[a] > 0
                /\ ~Overflows(d)
                /\ \A s \in Ids \ idempotency : AcceptedAndCreated(s, d, a)

\* C11: in every reachable state, for every account with a record, claim
\* returns the AccumulatedClaimed event for that account carrying the record
\* (balance and work counter) that get returns in that state.
C11_ClaimCarriesCurrentRecord ==
    \A a \in AccountIds :
        get(Self, a).some =>
            claim(Self, a) = Ok([type |-> "AccumulatedClaimed", account |-> a,
                                 accumulated |-> get(Self, a).value])

\* The caller holds the claim of a registered and credited account, and the
\* event carries the record the account has now.
C11_Witness ==
    \E e \in BagToSet(pending) :
        /\ e.type = "AccumulatedClaimed"
        /\ e.accumulated.amount > 0
        /\ e.accumulated.worked = 1
        /\ claim(Self, e.account) = Ok(e)

\* C12: in every reachable state, claim returns Err(NoSuchKey) exactly for
\* the accounts without a record, those never registered nor credited
\* included.
C12_ClaimRejectedIffAbsent ==
    \A a \in AccountIds :
        (claim(Self, a) = Err("NoSuchKey")) <=> ~get(Self, a).some

\* One account was never registered nor credited and its claim is rejected,
\* while the other has a record and its claim is accepted.
C12_Witness ==
    \E a, b \in AccountIds :
        /\ ~get(Self, a).some
        /\ credited[a] = 0
        /\ claim(Self, a) = Err("NoSuchKey")
        /\ get(Self, b).some
        /\ \E e \in BagToSet(pending) : claim(Self, b) = Ok(e)

\* C13 (as claimed): an account goes from no record to a record only in a
\* step that applies an AccountAdded event for it, and the record then has
\* balance zero; no AmountsAccumulated event gives an absent account a record.
C13_CreatedOnlyByRegistration ==
    [][\A a \in AccountIds :
          (~get(Self, a).some /\ get(Self', a).some) =>
              /\ AppliedAddOf(a)
              /\ get(Self', a).value.amount = 0]_vars

\* C13 (amended): an account goes from no record to a record only in a step
\* that applies an AccountAdded event for it, the record then having balance
\* zero and the event's work counter, or an AmountsAccumulated event naming
\* it, the record then having the event's delta as balance.
C13_CreatedByRegistrationOrAccumulation ==
    [][\A a \in AccountIds :
          (~get(Self, a).some /\ get(Self', a).some) =>
              \E e \in BagToSet(pending) :
                  /\ Applied(e)
                  /\ \/ /\ e.type = "AccountAdded"
                        /\ e.id = a
                        /\ get(Self', a).value
                              = [amount |-> 0, worked |-> e.worked]
                     \/ /\ e.type = "AmountsAccumulated"
                        /\ a \in DOMAIN e.distribution
                        /\ get(Self', a).value.amount = e.distribution[a]]_vars

\* One account got its record by registration (work counter 1, nothing
\* credited), the other by accumulation (credited, default work counter).
C13_Witness ==
    \E a, b \in DOMAIN accumulated :
        /\ accumulated[a] = [amount |-> 0, worked |-> 1]
        /\ credited[a] = 0
        /\ accumulated[b].amount > 0
        /\ accumulated[b].worked = 0
        /\ credited[b] = accumulated[b].amount

\* C14 (as claimed): for an account with a record, applying an AccountAdded
\* event never changes its balance, also when the event was validated while
\* the account had no record and is applied after an accumulation has
\* credited it; the balance changes only when an AmountsAccumulated event
\* naming the account is applied, and then does not decrease, and the record
\* goes only when a claim of the account is applied.
C14_BalanceOnlyGrowsUntilClaimed ==
    [][\A a \in AccountIds :
          get(Self, a).some =>
              /\ AppliedAddOf(a) =>
                    /\ get(Self', a).some
                    /\ get(Self', a).value.amount = get(Self, a).value.amount
              /\ ~get(Self', a).some => AppliedClaimOf(a)
              /\ (/\ get(Self', a).some
                  /\ get(Self', a).value.amount # get(Self, a).value.amount) =>
                    /\ AppliedAccumulationOf(a)
                    /\ get(Self', a).value.amount > get(Self, a).value.amount]_vars

\* The tables apply leaves behind, as the next &mut self.
Tables(st) == [idempotency |-> st.idempotency, accumulated |-> st.accumulated]

\* The caller holds e, and e is what accumulate returns for the state as it
\* is now.
HeldAndValid(e) ==
    /\ BagIn(e, pending)
    /\ e.type = "AmountsAccumulated"
    /\ accumulate(Self, e.id, e.distribution) = Ok(e)

\* C15 (as claimed): when the caller holds two AmountsAccumulated events with
\* distinct submission ids that accumulate returned for the same state, and
\* applies one of them to that state, the unwrap in apply meets no None, and
\* none when the other event is applied next, in any iteration order.
C15_SharedSnapshotApplies ==
    [][\A e1, e2 \in BagToSet(pending) :
          (/\ HeldAndValid(e1)
           /\ HeldAndValid(e2)
           /\ e1.id # e2.id
           /\ Applied(e1)) =>
              /\ ~panicked'
              /\ \A o2 \in Orders(e2.distribution) :
                    ~apply(Self', e2, o2).panicked]_vars

\* apply(e) credited every account of the distribution and recorded the id.
AllCredited(e) ==
    /\ e.id \in idempotency'
    /\ \A a \in DOMAIN e.distribution :
          /\ get(Self', a).some
          /\ get(Self', a).value.amount = BalanceOf(a) + e.distribution[a]

\* C16 (as claimed): a step that applies an AmountsAccumulated event either
\* credits every account of its distribution and records the submission id,
\* or leaves both tables as they were, also when the checked addition fails
\* on one entry.
C16_AppliedAtomically ==
    [][\A e \in BagToSet(pending) :
          (e.type = "AmountsAccumulated" /\ Applied(e)) =>
              \/ AllCredited(e)
              \/ (idempotency' = idempotency /\ accumulated' = accumulated)]_vars

\* C17: when each event is applied before the next command is validated,
\* the step that applies a claim of a leaves add_account(a, w) returning its
\* AccountAdded event for every w, and the step that applies an AccountAdded
\* event for a leaves get(a) with balance zero and the event's work counter,
\* whatever a held before the claim.
C17_ReRegistrationAfterClaim ==
    [][\A a \in AccountIds :
          /\ AppliedClaimOf(a) =>
                \A w \in WorkCounters :
                    add_account(Self', a, w)
                        = Ok([type |-> "AccountAdded", id |-> a, worked |-> w])
          /\ \A e \in BagToSet(pending) :
                (e.type = "AccountAdded" /\ e.id = a /\ Applied(e)) =>
                    get(Self', a) = Some([amount |-> 0, worked |-> e.worked])]_vars

\* An account credited under the default work counter, claimed, and then
\* registered again with work counter 1: it holds a zero balance.
C17_Witness ==
    \E a \in DOMAIN accumulated :
        /\ claimed[a] > 0
        /\ claimed[a] = credited[a]
        /\ accumulated[a] = [amount |-> 0, worked |-> 1]

\* C18 (as claimed): for every state and every AmountsAccumulated event the
\* caller holds, apply leaves the same processed set and accounts table
\* whatever the order in which the distribution map is iterated.
C18_ApplyOrderIndependent ==
    \A e \in BagToSet(pending) :
        e.type = "AmountsAccumulated" =>
            \A o1, o2 \in Orders(e.distribution) :
                Tables(apply(Self, e, o1)) = Tables(apply(Self, e, o2))

\* C19: when each event is applied before the next command is validated,
\* for every account the deltas credited to it by the applied events equal
\* its current balance (zero without a record) plus the balances carried by
\* the applied claims of it.
C19_CreditedIsHeldOrClaimed ==
    \A a \in AccountIds : credited[a] = BalanceOf(a) + claimed[a]

\* An account credited twice and claimed in between: part of what it was
\* credited has been claimed and part of it is held.
C19_Witness ==
    \E a \in DOMAIN accumulated :
        /\ claimed[a] > 0
        /\ accumulated[a].amount > 0
        /\ credited[a] = accumulated[a].amount + claimed[a]

====
